---- MODULE Spec2Model ----
(***************************************************************************)
(* frfr: reduction of sequences of image transformations (flips and        *)
(* rotations of a square image) to a minimal equivalent sequence.          *)
(*                                                                         *)
(* The model follows frfr.py: the enum T, the equivalence class tables,    *)
(* the bijective map, and the three functions reduce_base_form,            *)
(* rewrite_to_base_form / rewrite_to_rich_form and reduce.  A call of one  *)
(* of the functions is run step by step (one step per function body or     *)
(* recursive invocation); images are ImgSize x ImgSize pixel grids and     *)
(* the transformations act on them as PIL's Image.transpose does.          *)
(***************************************************************************)
EXTENDS Integers, Sequences, FiniteSets, TLC

\* Longest argument sequence handed to a call.
MaxLen == 5

\* Side length of the square test image.
ImgSize == 2

(***************************************************************************)
(* class T(enum.Enum)                                                      *)
(***************************************************************************)
FLIP_LEFT_RIGHT == "FLIP_LEFT_RIGHT"

FLIP_TOP_BOTTOM == "FLIP_TOP_BOTTOM"

ROTATE_LEFT == "ROTATE_LEFT"

ROTATE_180 == "ROTATE_180"

ROTATE_RIGHT == "ROTATE_RIGHT"

T == {FLIP_LEFT_RIGHT, FLIP_TOP_BOTTOM, ROTATE_LEFT, ROTATE_180, ROTATE_RIGHT}

\* Base image transformations.
f == FLIP_TOP_BOTTOM

r == ROTATE_RIGHT

(***************************************************************************)
(* Equivalence classes of the base transformation sequences of length up   *)
(* to four.  A class is a tuple; its first element is the representative.  *)
(***************************************************************************)
R == << <<r>>, <<f, f, r>>, <<r, f, f>> >>

F == << <<f>>, <<f, f, f>>, <<r, f, r>> >>

RR == << <<r, r>>, <<r, r, f, f>>, <<f, f, r, r>>, <<f, r, r, f>>, <<r, f, f, r>> >>

\* ID with a member of length four listed first, so that it is the representative.
ID_long_first == << <<r, r, r, r>>, <<>>, <<f, f>>, <<f, f, f, f>>, <<r, f, r, f>>, <<f, r, f, r>> >>

ID == << <<>>, <<f, f>>, <<r, r, r, r>>, <<f, f, f, f>>, <<r, f, r, f>>, <<f, r, f, r>> >>

FF == ID

\* RF with a typo in its last member: (f, f, f, r), a member of FR, for (f, f, r, f).
RF_typo == << <<r, f>>, <<r, r, f, r>>, <<f, r, r, r>>, <<r, f, f, f>>, <<f, f, f, r>> >>

RF == << <<r, f>>, <<r, r, f, r>>, <<f, r, r, r>>, <<r, f, f, f>>, <<f, f, r, f>> >>

\* FR with its member (r, f, r, r) left out.
FR_member_missing == << <<f, r>>, <<r, r, r, f>>, <<f, r, f, f>>, <<f, f, f, r>> >>

FR == << <<f, r>>, <<r, r, r, f>>, <<r, f, r, r>>, <<f, r, f, f>>, <<f, f, f, r>> >>

RRR == << <<r, r, r>>, <<f, r, f>> >>

FRR == << <<f, r, r>>, <<r, r, f>> >>

\* A set of all equivalence classes.
ALL_EQ == {R, F, RR, FF, RF, FR, RRR, FRR}

\* The elements of a tuple, as a set.
Members(EQ) == {EQ[i] : i \in 1..Len(EQ)}

(***************************************************************************)
(* BIJECTIVE_BASE_RICH_MAP, a dict, as the set of its <<key, value>> items.*)
(***************************************************************************)
\* The map without the contraction of two rotations: (r, r) is mapped to itself.
BIJECTIVE_BASE_RICH_MAP_no_180 ==
    { << <<ROTATE_RIGHT>>, <<ROTATE_RIGHT>> >>,
      << <<FLIP_TOP_BOTTOM>>, <<FLIP_TOP_BOTTOM>> >>,
      << <<ROTATE_RIGHT, ROTATE_RIGHT>>, <<ROTATE_RIGHT, ROTATE_RIGHT>> >>,
      << <<ROTATE_180>>, <<ROTATE_RIGHT, ROTATE_RIGHT>> >>,
      << <<>>, <<>> >>,
      << <<ROTATE_RIGHT, FLIP_TOP_BOTTOM>>, <<ROTATE_RIGHT, FLIP_TOP_BOTTOM>> >>,
      << <<FLIP_TOP_BOTTOM, ROTATE_RIGHT>>, <<FLIP_TOP_BOTTOM, ROTATE_RIGHT>> >>,
      << <<ROTATE_RIGHT, ROTATE_RIGHT, ROTATE_RIGHT>>, <<ROTATE_LEFT>> >>,
      << <<ROTATE_LEFT>>, <<ROTATE_RIGHT, ROTATE_RIGHT, ROTATE_RIGHT>> >>,
      << <<FLIP_TOP_BOTTOM, ROTATE_RIGHT, ROTATE_RIGHT>>, <<FLIP_LEFT_RIGHT>> >>,
      << <<FLIP_LEFT_RIGHT>>, <<FLIP_TOP_BOTTOM, ROTATE_RIGHT, ROTATE_RIGHT>> >> }

\* The map with one rotation dropped from the expansion of ROTATE_180.
BIJECTIVE_BASE_RICH_MAP_180_one_r ==
    { << <<ROTATE_RIGHT>>, <<ROTATE_RIGHT>> >>,
      << <<FLIP_TOP_BOTTOM>>, <<FLIP_TOP_BOTTOM>> >>,
      << <<ROTATE_RIGHT, ROTATE_RIGHT>>, <<ROTATE_180>> >>,
      << <<ROTATE_180>>, <<ROTATE_RIGHT>> >>,
      << <<>>, <<>> >>,
      << <<ROTATE_RIGHT, FLIP_TOP_BOTTOM>>, <<ROTATE_RIGHT, FLIP_TOP_BOTTOM>> >>,
      << <<FLIP_TOP_BOTTOM, ROTATE_RIGHT>>, <<FLIP_TOP_BOTTOM, ROTATE_RIGHT>> >>,
      << <<ROTATE_RIGHT, ROTATE_RIGHT, ROTATE_RIGHT>>, <<ROTATE_LEFT>> >>,
      << <<ROTATE_LEFT>>, <<ROTATE_RIGHT, ROTATE_RIGHT, ROTATE_RIGHT>> >>,
      << <<FLIP_TOP_BOTTOM, ROTATE_RIGHT, ROTATE_RIGHT>>, <<FLIP_LEFT_RIGHT>> >>,
      << <<FLIP_LEFT_RIGHT>>, <<FLIP_TOP_BOTTOM, ROTATE_RIGHT, ROTATE_RIGHT>> >> }

\* The map with ROTATE_LEFT expanded as one rotation to the right.
BIJECTIVE_BASE_RICH_MAP_left_is_right ==
    { << <<ROTATE_RIGHT>>, <<ROTATE_RIGHT>> >>,
      << <<FLIP_TOP_BOTTOM>>, <<FLIP_TOP_BOTTOM>> >>,
      << <<ROTATE_RIGHT, ROTATE_RIGHT>>, <<ROTATE_180>> >>,
      << <<ROTATE_180>>, <<ROTATE_RIGHT, ROTATE_RIGHT>> >>,
      << <<>>, <<>> >>,
      << <<ROTATE_RIGHT, FLIP_TOP_BOTTOM>>, <<ROTATE_RIGHT, FLIP_TOP_BOTTOM>> >>,
      << <<FLIP_TOP_BOTTOM, ROTATE_RIGHT>>, <<FLIP_TOP_BOTTOM, ROTATE_RIGHT>> >>,
      << <<ROTATE_RIGHT, ROTATE_RIGHT, ROTATE_RIGHT>>, <<ROTATE_LEFT>> >>,
      << <<ROTATE_LEFT>>, <<ROTATE_RIGHT>> >>,
      << <<FLIP_TOP_BOTTOM, ROTATE_RIGHT, ROTATE_RIGHT>>, <<FLIP_LEFT_RIGHT>> >>,
      << <<FLIP_LEFT_RIGHT>>, <<FLIP_TOP_BOTTOM, ROTATE_RIGHT, ROTATE_RIGHT>> >> }

BIJECTIVE_BASE_RICH_MAP ==
    { << <<ROTATE_RIGHT>>, <<ROTATE_RIGHT>> >>,
      << <<FLIP_TOP_BOTTOM>>, <<FLIP_TOP_BOTTOM>> >>,
      << <<ROTATE_RIGHT, ROTATE_RIGHT>>, <<ROTATE_180>> >>,
      << <<ROTATE_180>>, <<ROTATE_RIGHT, ROTATE_RIGHT>> >>,
      << <<>>, <<>> >>,
      << <<ROTATE_RIGHT, FLIP_TOP_BOTTOM>>, <<ROTATE_RIGHT, FLIP_TOP_BOTTOM>> >>,
      << <<FLIP_TOP_BOTTOM, ROTATE_RIGHT>>, <<FLIP_TOP_BOTTOM, ROTATE_RIGHT>> >>,
      << <<ROTATE_RIGHT, ROTATE_RIGHT, ROTATE_RIGHT>>, <<ROTATE_LEFT>> >>,
      << <<ROTATE_LEFT>>, <<ROTATE_RIGHT, ROTATE_RIGHT, ROTATE_RIGHT>> >>,
      << <<FLIP_TOP_BOTTOM, ROTATE_RIGHT, ROTATE_RIGHT>>, <<FLIP_LEFT_RIGHT>> >>,
      << <<FLIP_LEFT_RIGHT>>, <<FLIP_TOP_BOTTOM, ROTATE_RIGHT, ROTATE_RIGHT>> >> }

\* key in BIJECTIVE_BASE_RICH_MAP
MapHas(key) == \E item \in BIJECTIVE_BASE_RICH_MAP : item[1] = key

\* BIJECTIVE_BASE_RICH_MAP[key], for a key of the dict
MapGet(key) == (CHOOSE item \in BIJECTIVE_BASE_RICH_MAP : item[1] = key)[2]

(***************************************************************************)
(* What an evaluation yields: a tuple, None, or a raised exception.        *)
(***************************************************************************)
ReturnTuple(v) == [kind |-> "tuple", val |-> v, exc |-> ""]

ReturnNone == [kind |-> "None", val |-> <<>>, exc |-> ""]

Raise(e) == [kind |-> "raise", val |-> <<>>, exc |-> e]

(***************************************************************************)
(* reduce_base_form.representative: the first class of ALL_EQ that holds   *)
(* the sequence gives its first element; the loop falls off its end, and   *)
(* the function returns None, when no class holds the sequence.  ALL_EQ is  *)
(* a set, iterated in no fixed order: a sequence held by two classes would *)
(* get the first element of either; TableIsPartition below shows that no   *)
(* sequence is held by two, so that the choice here is among one.          *)
(***************************************************************************)
representative(transformation_sequence) ==
    LET hits == {EQ \in ALL_EQ : transformation_sequence \in Members(EQ)}
    IN  IF hits = {}
        THEN ReturnNone
        ELSE ReturnTuple((CHOOSE EQ \in hits : TRUE)[1])

(***************************************************************************)
(* rewrite_to_base_form: the concatenation of BIJECTIVE_BASE_RICH_MAP[(t,)]*)
(* over the elements t; a missing key raises KeyError.                     *)
(***************************************************************************)
RECURSIVE rewrite_to_base_form(_)
rewrite_to_base_form(rich_transformation_sequence) ==
    IF rich_transformation_sequence = <<>>
    THEN ReturnTuple(<<>>)
    ELSE LET transformation == Head(rich_transformation_sequence)
             rest == rewrite_to_base_form(Tail(rich_transformation_sequence))
         IN  IF ~MapHas(<<transformation>>)
             THEN Raise("KeyError")
             ELSE IF rest.kind = "raise"
                  THEN rest
                  ELSE ReturnTuple(MapGet(<<transformation>>) \o rest.val)

(***************************************************************************)
(* rewrite_to_rich_form: the dict lookup; on KeyError the handler builds   *)
(* the message of its ValueError by concatenating a str and the argument,  *)
(* which is a tuple (or None), and that concatenation raises TypeError     *)
(* before any ValueError exists.                                           *)
(***************************************************************************)
rewrite_to_rich_form(reduced) ==
    IF reduced.kind = "tuple" /\ MapHas(reduced.val)
    THEN ReturnTuple(MapGet(reduced.val))
    ELSE IF reduced.kind = "str" THEN Raise("ValueError") ELSE Raise("TypeError")

(***************************************************************************)
(* PIL's Image.transpose on a square image, a function from <<row, col>>   *)
(* to a pixel value, and apply: the transformations left to right.         *)
(***************************************************************************)
Pixels == (0..(ImgSize - 1)) \X (0..(ImgSize - 1))

\* An image without any symmetry: every pixel differs.
an_image == [p \in Pixels |-> p[1] * ImgSize + p[2]]

transpose(image, op) ==
    LET n == ImgSize - 1
    IN  CASE op = FLIP_LEFT_RIGHT -> [p \in Pixels |-> image[<<p[1], n - p[2]>>]]
          [] op = FLIP_TOP_BOTTOM -> [p \in Pixels |-> image[<<n - p[1], p[2]>>]]
          [] op = ROTATE_LEFT     -> [p \in Pixels |-> image[<<p[2], n - p[1]>>]]
          [] op = ROTATE_180      -> [p \in Pixels |-> image[<<n - p[1], n - p[2]>>]]
          [] op = ROTATE_RIGHT    -> [p \in Pixels |-> image[<<n - p[2], p[1]>>]]

RECURSIVE apply(_, _)
apply(transformation_sequence, image) ==
    IF transformation_sequence = <<>>
    THEN image
    ELSE apply(Tail(transformation_sequence),
               transpose(image, Head(transformation_sequence)))

(***************************************************************************)
(* The calls.  fn is the function called and arg its argument; pc is the   *)
(* function body now running; val is the value that body works on, and     *)
(* after the call what it returned or raised; depth counts the recursive   *)
(* invocations of reduce_base_form; prev keeps, of the last call of reduce *)
(* that returned, the image its argument produces and what it returned.    *)
(***************************************************************************)
VARIABLES fn, arg, pc, val, depth, prev

vars == <<fn, arg, pc, val, depth, prev>>

Fns == {"reduce", "reduce_base_form", "rewrite_to_rich_form"}

\* [ROTATE_RIGHT] * 8
EightRotateRight == [i \in 1..8 |-> ROTATE_RIGHT]

\* The argument sequences: all sequences of transformations up to MaxLen.
Inputs == UNION {[1..n -> T] : n \in 0..MaxLen} \cup {EightRotateRight}

NoPrev == [valid |-> FALSE, eff |-> an_image, out |-> <<>>]

Init ==
    /\ fn = "reduce"
    /\ arg = <<>>
    /\ pc = "idle"
    /\ val = ReturnTuple(<<>>)
    /\ depth = 0
    /\ prev = NoPrev

\* A caller calls one of the functions on a sequence of transformations.
Call ==
    /\ pc = "idle"
    /\ \E g \in Fns, s \in Inputs :
          /\ fn' = g
          /\ arg' = s
          /\ val' = ReturnTuple(s)
          /\ pc' = IF g = "reduce" THEN "rewrite_to_base_form" ELSE g
    /\ depth' = 0
    /\ UNCHANGED prev

\* The caller takes the outcome of the call; of a call of reduce that returned
\* it keeps the image of the argument and the returned sequence.
Finish ==
    /\ pc \in {"returned", "raised"}
    /\ prev' = IF fn = "reduce" /\ pc = "returned"
               THEN [valid |-> TRUE, eff |-> apply(arg, an_image), out |-> val.val]
               ELSE prev
    /\ fn' = "reduce"
    /\ arg' = <<>>
    /\ pc' = "idle"
    /\ val' = ReturnTuple(<<>>)
    /\ depth' = 0

\* reduce returning the base form as it is, neither reduced nor rewritten.
RewriteToBaseForm_returned_unreduced ==
    /\ pc = "rewrite_to_base_form"
    /\ LET base == rewrite_to_base_form(val.val)
       IN  /\ val' = base
           /\ pc' = IF base.kind = "raise" THEN "raised" ELSE "returned"
    /\ UNCHANGED <<fn, arg, depth, prev>>

\* reduce: the innermost call, rewrite_to_base_form(transformation_sequence).
RewriteToBaseForm ==
    /\ pc = "rewrite_to_base_form"
    /\ LET base == rewrite_to_base_form(val.val)
       IN  /\ val' = base
           /\ pc' = IF base.kind = "raise" THEN "raised" ELSE "reduce_base_form"
    /\ UNCHANGED <<fn, arg, depth, prev>>

\* reduce_base_form, length < 5: one lookup, returned to the caller.
ReduceBaseFormLookup ==
    /\ pc = "reduce_base_form"
    /\ Len(val.val) < 5
    /\ val' = representative(val.val)
    /\ pc' = IF fn = "reduce" THEN "rewrite_to_rich_form" ELSE "returned"
    /\ UNCHANGED <<fn, arg, depth, prev>>

\* The recursive call with the tail taken one element late,
\* transformation_sequence[5:] for transformation_sequence[4:].
ReduceBaseFormRecurse_tail_off_by_one ==
    /\ pc = "reduce_base_form"
    /\ Len(val.val) >= 5
    /\ LET rep == representative(SubSeq(val.val, 1, 4))
       IN  IF rep.kind = "None"
           THEN /\ val' = Raise("TypeError")
                /\ pc' = "raised"
                /\ depth' = depth
           ELSE /\ val' = ReturnTuple(rep.val \o SubSeq(val.val, 6, Len(val.val)))
                /\ pc' = "reduce_base_form"
                /\ depth' = depth + 1
    /\ UNCHANGED <<fn, arg, prev>>

\* reduce_base_form, length >= 5: the recursive call on
\* representative(transformation_sequence[:4]) + transformation_sequence[4:];
\* None + tuple raises TypeError.
ReduceBaseFormRecurse ==
    /\ pc = "reduce_base_form"
    /\ Len(val.val) >= 5
    /\ LET rep == representative(SubSeq(val.val, 1, 4))
       IN  IF rep.kind = "None"
           THEN /\ val' = Raise("TypeError")
                /\ pc' = "raised"
                /\ depth' = depth
           ELSE /\ val' = ReturnTuple(rep.val \o SubSeq(val.val, 5, Len(val.val)))
                /\ pc' = "reduce_base_form"
                /\ depth' = depth + 1
    /\ UNCHANGED <<fn, arg, prev>>

\* rewrite_to_rich_form, called directly or as the last step of reduce.
RewriteToRichForm ==
    /\ pc = "rewrite_to_rich_form"
    /\ LET rich == rewrite_to_rich_form(val)
       IN  /\ val' = rich
           /\ pc' = IF rich.kind = "raise" THEN "raised" ELSE "returned"
    /\ UNCHANGED <<fn, arg, depth, prev>>

Next ==
    \/ Call
    \/ Finish
    \/ RewriteToBaseForm
    \/ ReduceBaseFormLookup
    \/ ReduceBaseFormRecurse
    \/ RewriteToRichForm

Spec == Init /\ [][Next]_vars

(***************************************************************************)
(* Properties                                                              *)
(***************************************************************************)
Finished == pc \in {"returned", "raised"}

\* The image a sequence of transformations makes of the test image.  The pixels
\* of an_image all differ, so two sequences that agree on it move every pixel alike.
Effect(s) == apply(s, an_image)

\* The sequences of base transformations of the lengths in lens.
BaseSeqs(lens) == UNION {[1..n -> {f, r}] : n \in lens}

\* The sequences of transformations shorter than n.
ShorterSeqs(n) == UNION {[1..k -> T] : k \in 0..(n - 1)}

\* The representatives of the classes.
Representatives == {EQ[1] : EQ \in ALL_EQ}

\* The classes that hold a sequence.
ClassesOf(s) == {EQ \in ALL_EQ : s \in Members(EQ)}

\* C1: whenever reduce returns, applying the returned sequence to the image gives
\* the same image as applying the argument.
C1_SameEffect ==
    (fn = "reduce" /\ pc = "returned") =>
        /\ val.kind = "tuple"
        /\ Effect(val.val) = Effect(arg)

C1_Witness ==
    /\ fn = "reduce" /\ pc = "returned"
    /\ Len(arg) = MaxLen /\ depth >= 2
    /\ val.val = <<ROTATE_RIGHT, FLIP_TOP_BOTTOM>>

\* The first element of every class is no longer than any member of the class.
RepresentativesAreShortest ==
    \A EQ \in ALL_EQ : \A m \in Members(EQ) : Len(EQ[1]) <= Len(m)

\* C2: whenever reduce returns, no sequence of transformations shorter than the
\* returned one has the effect of the argument; and the first element of every
\* class is no longer than any member of the class.
C2_Shortest ==
    /\ (fn = "reduce" /\ pc = "returned") =>
          \A t \in ShorterSeqs(Len(val.val)) : Effect(t) # Effect(arg)
    /\ RepresentativesAreShortest

C2_Witness ==
    /\ fn = "reduce" /\ pc = "returned"
    /\ Len(arg) >= 3
    /\ val.val = <<FLIP_TOP_BOTTOM, ROTATE_RIGHT>>

\* C3: whenever reduce returns, the returned sequence has at most 3 elements.
C3_LengthBound ==
    (fn = "reduce" /\ pc = "returned") => Len(val.val) <= 3

C3_Witness ==
    /\ fn = "reduce" /\ pc = "returned"
    /\ Len(arg) = MaxLen /\ depth >= 3
    /\ Len(val.val) = 2

\* C4: reduce called on a sequence that reduce returned returns that sequence.
C4_Idempotent ==
    (fn = "reduce" /\ pc = "returned" /\ prev.valid /\ arg = prev.out) =>
        val.val = arg

C4_Witness ==
    /\ fn = "reduce" /\ pc = "returned"
    /\ prev.valid /\ arg = prev.out
    /\ arg = <<ROTATE_LEFT>> /\ val.val = <<ROTATE_LEFT>>

\* The table alone: ALL_EQ has 8 classes; every sequence over {f, r} of length 0
\* to 4 is in exactly one class and occurs once in it; the classes hold 31
\* sequences, none longer than 4.
TableIsPartition ==
    /\ Cardinality(ALL_EQ) = 8
    /\ \A s \in BaseSeqs(0..4) : Cardinality(ClassesOf(s)) = 1
    /\ \A EQ \in ALL_EQ :
          /\ Cardinality(Members(EQ)) = Len(EQ)
          /\ Members(EQ) \subseteq BaseSeqs(0..4)
    /\ Cardinality(UNION {{<<EQ, i>> : i \in 1..Len(EQ)} : EQ \in ALL_EQ}) = 31

\* C5: the 8 classes of ALL_EQ partition the 31 sequences over {f, r} of length 0
\* to 4, and every lookup reduce makes is of a sequence that is in one class.
C5_Partition ==
    /\ TableIsPartition
    /\ (fn = "reduce" /\ pc = "reduce_base_form") =>
          Cardinality(ClassesOf(SubSeq(val.val, 1, IF Len(val.val) < 5 THEN Len(val.val) ELSE 4))) = 1

C5_Witness ==
    /\ fn = "reduce" /\ pc = "reduce_base_form"
    /\ Len(val.val) >= 5
    /\ SubSeq(val.val, 1, 4) = <<f, f, r, f>>

\* C6: a call of reduce never raises; no lookup in it yields None, and the
\* sequence handed to rewrite_to_rich_form is a key of the map.
C6_Total ==
    fn = "reduce" =>
        /\ pc # "raised"
        /\ val.kind = "tuple"
        /\ pc = "rewrite_to_rich_form" => MapHas(val.val)

C6_Witness ==
    /\ fn = "reduce" /\ pc = "rewrite_to_rich_form"
    /\ depth >= 2
    /\ val.val = <<r, r, r>>

\* C7: rewrite_to_rich_form returns the rich equivalent for the 8 representatives
\* and raises ValueError for every other argument.
C7_ContractOnlyCanonical ==
    (fn = "rewrite_to_rich_form" /\ Finished) =>
        IF arg \in Representatives
        THEN pc = "returned" /\ val.kind = "tuple" /\ Effect(val.val) = Effect(arg)
        ELSE pc = "raised" /\ val.exc = "ValueError"

\* The rich forms of the representatives.
RichForms == {MapGet(k) : k \in {k \in Representatives : MapHas(k)}}

\* The rich forms of the representatives give 8 different images.
RichFormsDistinct == Cardinality({Effect(c) : c \in RichForms}) = 8

\* C8: whenever reduce returns after an earlier call of reduce returned, the two
\* returned sequences are equal exactly when the two arguments have the same
\* effect; the returned sequence is one of 8 sequences, which have 8 different
\* effects; and it is empty when the argument leaves the image as it is.
C8_Canonical ==
    (fn = "reduce" /\ pc = "returned") =>
        /\ prev.valid => ((Effect(arg) = prev.eff) <=> (val.val = prev.out))
        /\ val.val \in RichForms /\ Cardinality(RichForms) = 8 /\ RichFormsDistinct
        /\ Effect(arg) = an_image => val.val = <<>>

C8_Witness ==
    /\ fn = "reduce" /\ pc = "returned"
    /\ arg = EightRotateRight /\ val.val = <<>>
    /\ prev.valid /\ prev.eff = an_image /\ prev.out = <<>>

\* C9: a step of reduce_base_form on a sequence of length 5 or more either raises
\* or calls reduce_base_form on a strictly shorter sequence; on a shorter
\* sequence it leaves reduce_base_form without a recursive call.
C9_RecursionShrinks ==
    [][pc = "reduce_base_form" =>
          IF Len(val.val) >= 5
          THEN pc' = "reduce_base_form" => Len(val'.val) < Len(val.val)
          ELSE pc' # "reduce_base_form" /\ depth' = depth]_vars

C9_Witness ==
    /\ pc = "reduce_base_form"
    /\ depth >= 3
    /\ Len(val.val) < 5

\* C10: no lookup yields None, and reduce_base_form called on a sequence of
\* length up to 4 that no class holds ends by raising.
C10_LookupFailsFast ==
    /\ val.kind # "None"
    /\ (fn = "reduce_base_form" /\ Finished /\ Len(arg) < 5 /\ ClassesOf(arg) = {}) =>
          pc = "raised"

====
